---------------------------- MODULE Spec2Model ----------------------------
(***************************************************************************)
(* Model of the transport query agent: the four-node LangGraph workflow of *)
(* app/services/agent_service.py, the envelope-building facade of          *)
(* app/services/transport_service.py and the LTA DataMall repository of    *)
(* app/repositories/lta_repository.py, with its paginated bus-stop search. *)
(*                                                                         *)
(* Conventions.  A Python str is a sequence of atoms: an atom is one       *)
(* character, or a run of characters the code never looks inside (a word,  *)
(* a sentence).  A Python dict is a function whose domain is its key set.  *)
(* A JSON value produced by the language model is a record tagged by its   *)
(* JSON type (field t).  An awaited call either returns or raises: its     *)
(* outcome is a record with field raised.                                  *)
(***************************************************************************)
EXTENDS Integers, Sequences, FiniteSets, TLC

(***************************************************************************)
(* Python values                                                           *)
(***************************************************************************)

\* The empty dict {}.
EmptyDict == [k \in {} |-> 0]

\* d[k] = v on a dict.
Put(d, k, v) == [x \in (DOMAIN d) \cup {k} |-> IF x = k THEN v ELSE d[x]]

\* d.get(k, default) on a dict.
Get(d, k, default) == IF k \in DOMAIN d THEN d[k] ELSE default

\* JSON values: a string, null, an array, an object.
Str(s) == [t |-> "str", s |-> s]

Null == [t |-> "null"]

List(xs) == [t |-> "list", xs |-> xs]

Dict(d) == [t |-> "dict", d |-> d]

\* Python truthiness of a JSON value (None, "", [] and {} are falsy).
Truthy(v) ==
    CASE v.t = "str" -> v.s # <<>>
      [] v.t = "list" -> v.xs # <<>>
      [] v.t = "dict" -> DOMAIN v.d # {}
      [] OTHER -> FALSE

\* x or y.
Or(x, y) == IF Truthy(x) THEN x ELSE y

\* The lower-case form of an atom.
LowerChar(c) ==
    CASE c = "O" -> "o"
      [] c = "R" -> "r"
      [] c = "X" -> "x"
      [] c = "Bus_Arrival" -> "bus_arrival"
      [] c = "Weather" -> "weather"
      [] OTHER -> c

\* str.lower().
Lower(s) == [i \in 1..Len(s) |-> LowerChar(s[i])]

\* sub in s, on two str.
In(sub, s) ==
    \E i \in 0..(Len(s) - Len(sub)) : SubSeq(s, i + 1, i + Len(sub)) = sub

\* The atoms str.strip() removes from both ends.
Whitespace == {" ", "\n"}

\* str.strip().
RECURSIVE Strip(_)
Strip(s) ==
    IF s = <<>> THEN s
    ELSE IF Head(s) \in Whitespace THEN Strip(Tail(s))
    ELSE IF s[Len(s)] \in Whitespace THEN Strip(SubSeq(s, 1, Len(s) - 1))
    ELSE s

\* xs[:n].
Take(xs, n) == SubSeq(xs, 1, IF Len(xs) < n THEN Len(xs) ELSE n)


(***************************************************************************)
(* Outcomes of calls                                                       *)
(***************************************************************************)

\* A call that returned v.
Return(v) == [raised |-> FALSE, value |-> v]

\* A call that raised an exception whose str() is e.
Raise(e) == [raised |-> TRUE, error |-> e]

\* datetime.now().isoformat(): the clock is not modelled, every reading is
\* the same token.
Now == "now"

(***************************************************************************)
(* The LTA DataMall server, as seen through httpx                          *)
(***************************************************************************)

\* Full pages the stop catalog may hold before its last, short page.
MaxFullPages == 2

\* batch_size of search_bus_stop; the server's page size.
batch_size == 500

\* Sizes of a page that ends the catalog.
ShortPages == {0, 300, 499}

\* The catalogs the server may hold.  In "dense" every stop carries the text
\* "or" in one of its two fields, in some letter case; in "sparse" only every
\* hundredth stop does.
Catalogs == {"dense", "sparse"}

\* The i-th stop of a catalog, as the JSON object the BusStops endpoint lists.
StopAt(catalog, i) ==
    IF catalog = "dense"
    THEN CASE i % 3 = 0 -> [BusStopCode |-> i, Description |-> <<"O", "r", "x">>,
                            RoadName |-> <<"x">>]
           [] i % 3 = 1 -> [BusStopCode |-> i, Description |-> <<"x">>,
                            RoadName |-> <<"x", "o", "R">>]
           [] OTHER -> [BusStopCode |-> i, RoadName |-> <<"O", "R">>]
    ELSE CASE i % 200 = 0 -> [BusStopCode |-> i, Description |-> <<"x", "O", "R">>,
                              RoadName |-> <<"r", "o">>]
           [] i % 200 = 100 -> [BusStopCode |-> i, Description |-> <<"r", "o">>,
                                RoadName |-> <<"o", "r", "X">>]
           [] i % 2 = 0 -> [BusStopCode |-> i, Description |-> <<"r", "O">>,
                            RoadName |-> <<"x">>]
           [] OTHER -> [BusStopCode |-> i, Description |-> <<"o">>]

\* The n stops that follow the first `skip` stops of a catalog.
Page(catalog, skip, n) == [j \in 1..n |-> StopAt(catalog, skip + j)]

\* What an HTTP GET may come to: no response (connection error, timeout), a
\* response with an error status, or a 200 response with a JSON body.
NetworkError == [responded |-> FALSE, error |-> <<"ConnectError">>]

HttpError == [responded |-> TRUE, status |-> 500]

HttpOk(body) == [responded |-> TRUE, status |-> 200, body |-> body]

\* Responses of the BusStops endpoint to $skip = skip.
BusStopsResponses(catalog, skip) ==
    {NetworkError, HttpError, HttpOk([metadata |-> "BusStops"])}
    \cup {HttpOk([value |-> Page(catalog, skip, n)]) :
            n \in ShortPages \cup (IF skip < MaxFullPages * batch_size
                                   THEN {batch_size} ELSE {})}

\* Responses of the BusArrival endpoint.
BusArrivalResponses ==
    {NetworkError, HttpError, HttpOk([Services |-> <<>>]),
     HttpOk([Services |-> <<[ServiceNo |-> "190"]>>])}

\* Responses of the TrafficIncidents endpoint.
TrafficIncidentsResponses ==
    {NetworkError, HttpError, HttpOk([value |-> <<[Type |-> "Accident"]>>])}

\* Responses of the TrafficSpeedBands endpoint.
TrafficSpeedBandsResponses ==
    {NetworkError, HttpError, HttpOk([value |-> <<[SpeedBand |-> 3]>>])}

(***************************************************************************)
(* LTARepository                                                           *)
(***************************************************************************)

\* _make_request: the JSON body of a 2xx response; raise_for_status raises
\* on any other status and client.get raises when no response arrives.  Both
\* except clauses re-raise.
MakeRequest(http) ==
    IF ~http.responded THEN Raise(http.error)
    ELSE IF http.status < 200 \/ http.status > 299 THEN Raise(<<"HTTPStatusError">>)
    ELSE Return(http.body)

\* A filter test that forgets the road name.
MatchesDescriptionOnly(stop, query_lower) ==
    In(query_lower, Lower(Get(stop, "Description", <<>>)))

\* The filter test of search_bus_stop for one stop.
Matches(stop, query_lower) ==
    \/ In(query_lower, Lower(Get(stop, "Description", <<>>)))
    \/ In(query_lower, Lower(Get(stop, "RoadName", <<>>)))


\* An except clause that logs the error and lets it through.
SearchExceptReraises(stops, query, error) == Raise(error)

\* An except clause that returns the matches of the pages fetched so far.
SearchExceptKeepsPartial(stops, query, error) ==
    IF query.t # "str" THEN Return(<<>>)
    ELSE Return(Take(SelectSeq(stops,
                               LAMBDA stop : Matches(stop, Lower(query.s))), 10))

\* The except clause of search_bus_stop: whatever was accumulated, the
\* search comes to an empty list.
SearchExcept(stops, query, error) == Return(<<>>)

\* A search that returns every match, without the cut to ten.
SearchFilterNoCut(stops, query) ==
    IF query.t # "str" THEN SearchExcept(stops, query, <<"AttributeError">>)
    ELSE Return(SelectSeq(stops, LAMBDA stop : Matches(stop, Lower(query.s))))

\* The statements of search_bus_stop after its loop: the filter over the
\* accumulated stops and the cut to ten.  A query that is no str has no
\* lower(); the AttributeError ends in the except clause.
SearchFilter(stops, query) ==
    IF query.t # "str" THEN SearchExcept(stops, query, <<"AttributeError">>)
    ELSE LET query_lower == Lower(query.s)
         IN  Return(Take(SelectSeq(stops,
                                   LAMBDA stop : Matches(stop, query_lower)), 10))

\* A loop whose end test is <= : it breaks after the first full page.
LoopTurnBreaksOnFullPage(stops, accumulated, offset) ==
    IF stops = <<>>
    THEN [all_stops |-> accumulated, skip |-> offset, break |-> TRUE]
    ELSE IF Len(stops) <= batch_size
    THEN [all_stops |-> accumulated \o stops, skip |-> offset, break |-> TRUE]
    ELSE [all_stops |-> accumulated \o stops, skip |-> offset + batch_size,
          break |-> FALSE]

\* A loop that takes an empty page for a gap and goes on to the next offset.
LoopTurnSkipsEmptyPage(stops, accumulated, offset) ==
    IF stops # <<>> /\ Len(stops) < batch_size
    THEN [all_stops |-> accumulated \o stops, skip |-> offset, break |-> TRUE]
    ELSE [all_stops |-> accumulated \o stops, skip |-> offset + batch_size,
          break |-> FALSE]

\* One turn of the loop of search_bus_stop after get_bus_stops returned the
\* page `stops`: the stops accumulated, the next offset, and whether the loop
\* breaks.
LoopTurn(stops, accumulated, offset) ==
    IF stops = <<>>
    THEN [all_stops |-> accumulated, skip |-> offset, break |-> TRUE]
    ELSE IF Len(stops) < batch_size
    THEN [all_stops |-> accumulated \o stops, skip |-> offset, break |-> TRUE]
    ELSE [all_stops |-> accumulated \o stops, skip |-> offset + batch_size,
          break |-> FALSE]

(***************************************************************************)
(* TransportService                                                        *)
(***************************************************************************)

\* Each operation awaits one repository call inside try/except Exception;
\* `outcome` is what that call came to, the result is what the operation
\* comes to.

\* A get_bus_arrival_info whose except clause lets the exception through.
get_bus_arrival_info_reraises(outcome) ==
    IF outcome.raised THEN outcome
    ELSE Return([success |-> TRUE, data |-> outcome.value, timestamp |-> Now])

\* get_bus_arrival_info.
get_bus_arrival_info(outcome) ==
    IF outcome.raised
    THEN Return([success |-> FALSE, error |-> outcome.error, timestamp |-> Now])
    ELSE Return([success |-> TRUE, data |-> outcome.value, timestamp |-> Now])

\* search_bus_stops.
search_bus_stops(outcome) ==
    IF outcome.raised
    THEN Return([success |-> FALSE, error |-> outcome.error])
    ELSE Return([success |-> TRUE, data |-> outcome.value,
                 count |-> Len(outcome.value)])

\* A get_traffic_info whose except clause lets the exception through.
get_traffic_info_reraises(outcome) ==
    IF outcome.raised THEN outcome
    ELSE Return([success |-> TRUE, data |-> outcome.value, timestamp |-> Now])

\* get_traffic_info.
get_traffic_info(outcome) ==
    IF outcome.raised
    THEN Return([success |-> FALSE, error |-> outcome.error])
    ELSE Return([success |-> TRUE, data |-> outcome.value, timestamp |-> Now])

\* get_traffic_speed_info.
get_traffic_speed_info(outcome) ==
    IF outcome.raised
    THEN Return([success |-> FALSE, error |-> outcome.error])
    ELSE Return([success |-> TRUE, data |-> outcome.value, timestamp |-> Now])

(***************************************************************************)
(* The language model and the callers, as seen by TransportAgent           *)
(***************************************************************************)

\* The six intents the classification prompt names.
Intents ==
    {<<"bus_arrival">>, <<"bus_stop_search">>, <<"route_planning">>,
     <<"traffic_info">>, <<"service_info">>, <<"general">>}

\* What llm.ainvoke may raise (the provider is unreachable, a rate limit).
LlmErrors == {<<"Connection error.">>}

\* response.content of the classification call.
IntentReplies == Intents \cup {<<" ", "Bus_Arrival", "\n">>, <<"Weather">>}

\* The JSON objects the extraction call may reply with.
ParamObjects ==
    {Dict(EmptyDict),
     Dict([bus_stop_code |-> Str(<<"83139">>)]),
     Dict([bus_stop_code |-> Str(<<"83139">>), service_no |-> Str(<<"190">>),
           location_name |-> Str(<<"o", "r">>)]),
     Dict([bus_stop_code |-> Null, location_name |-> Str(<<"O", "R">>)]),
     Dict([bus_stop_code |-> Str(<<>>), service_no |-> Str(<<"190">>)]),
     Dict([location_name |-> Str(<<"o", "r">>), service_no |-> Str(<<"190">>)]),
     Dict([location_name |-> Str(<<"O", "r">>), road_name |-> Str(<<"R", "o">>)]),
     Dict([location_name |-> Str(<<>>), road_name |-> Str(<<"R", "o">>)]),
     Dict([location_name |-> Str(<<>>)]),
     Dict([road_name |-> Str(<<"x", "X">>)]),
     Dict([road_name |-> Str(<<>>)])}

\* response.content of the extraction call: a text json.loads parses to
\* `value`, or a text it rejects.
ExtractionReplies ==
    {[parses |-> FALSE]}
    \cup {[parses |-> TRUE, value |-> v] :
            v \in ParamObjects \cup {Null, List(<<Str(<<"o", "r">>)>>)}}

\* response.content of the synthesis call.
AnswerReplies == {<<"\n", "Bus 190 arrives in 3 minutes.", " ">>, <<" ">>}

\* The outcomes of llm.ainvoke over a set of reply contents.
Completions(contents) ==
    {Return([content |-> c]) : c \in contents} \cup {Raise(e) : e \in LlmErrors}

\* The user_query argument of query().
Queries == {<<"When is the next bus at Orchard?">>}

\* The context argument of query(): None, or a dict.
Contexts == {Null, Dict([weather |-> <<"rain">>])}

\* json.loads.
JsonLoads(content) ==
    IF content.parses THEN Return(content.value)
    ELSE Raise(<<"JSONDecodeError">>)

(***************************************************************************)
(* TransportAgent: the nodes                                               *)
(***************************************************************************)

\* The workflow built by _build_workflow: the entry point and the edges.
EntryPoint == "understand_intent"

\* A workflow whose edge out of extract_parameters bypasses call_api.
EdgeBypassesCallApi(node) ==
    CASE node = "understand_intent" -> "extract_parameters"
      [] node = "extract_parameters" -> "generate_response"
      [] node = "call_api" -> "generate_response"
      [] node = "generate_response" -> "END"

Edge(node) ==
    CASE node = "understand_intent" -> "extract_parameters"
      [] node = "extract_parameters" -> "call_api"
      [] node = "call_api" -> "generate_response"
      [] node = "generate_response" -> "END"

\* The messages of the transcript stand for the objects the list holds: the
\* HumanMessage built by query(), and the response of each node's model call.
HumanMessage == [type |-> "human", of |-> "query"]

AIMessage(node) == [type |-> "ai", of |-> node]

\* How the graph folds a node's returned dict into the state: the messages
\* channel is annotated with operator.add, every other key is replaced.
Reduce(old, update) ==
    [update EXCEPT !.messages = old.messages \o update.messages]

\* initial_state of query().
InitialState(user_query, context) ==
    [messages |-> <<HumanMessage>>,
     query |-> user_query,
     intent |-> <<>>,
     extracted_params |-> Dict(EmptyDict),
     api_results |-> EmptyDict,
     final_answer |-> <<>>,
     context |-> Or(context, Dict(EmptyDict)),
     iteration |-> 0]

\* An understand_intent that forgets lower().
ClassifiedIntentNotLowered(content) == Strip(content)

\* The intent understand_intent reads from the model's reply.
ClassifiedIntent(content) == Lower(Strip(content))

\* The dict understand_intent returns.
understand_intent(st, response) ==
    [st EXCEPT !.intent = ClassifiedIntent(response.content),
               !.messages = @ \o <<AIMessage("understand_intent")>>]

\* An extract_parameters whose except clause leaves None instead of {}.
ExtractedParamsNoneOnError(content) ==
    LET parsed == JsonLoads(content)
    IN  IF parsed.raised THEN Null ELSE parsed.value

\* extracted_params of extract_parameters: the parsed reply, or {} when
\* json.loads raises JSONDecodeError.
ExtractedParams(content) ==
    LET parsed == JsonLoads(content)
    IN  IF parsed.raised THEN Dict(EmptyDict) ELSE parsed.value

\* The dict extract_parameters returns.
extract_parameters(st, response) ==
    [st EXCEPT !.extracted_params = ExtractedParams(response.content),
               !.messages = @ \o <<AIMessage("extract_parameters")>>]

\* The dict generate_response returns.
generate_response(st, response) ==
    [st EXCEPT !.final_answer = Strip(response.content),
               !.messages = @ \o <<AIMessage("generate_response")>>]

\* A dispatch stage that also puts an empty mapping where the extraction left
\* something else.
call_api_repairs_params(st, results) ==
    [st EXCEPT !.api_results = results,
               !.extracted_params =
                   IF st.extracted_params.t = "dict"
                   THEN st.extracted_params ELSE Dict(EmptyDict)]

\* The dict call_api returns.
call_api(st, results) == [st EXCEPT !.api_results = results]

\* A query() that adds a top-level error field when the results hold an
\* error entry or a failure envelope.
ResponseFlagsFailure(user_query, context, final_state) ==
    LET results == final_state.api_results
        failed == {k \in DOMAIN results : k = "error" \/ ~results[k].success}
        normal == [query |-> user_query,
                   answer |-> final_state.final_answer,
                   intent |-> final_state.intent,
                   extracted_params |-> final_state.extracted_params,
                   api_results |-> results,
                   context |-> context,
                   timestamp |-> Now]
    IN  IF failed = {} THEN normal
        ELSE Put(normal, "error", <<"API call failed">>)

\* The dict query() returns after the workflow.
Response(user_query, context, final_state) ==
    [query |-> user_query,
     answer |-> final_state.final_answer,
     intent |-> final_state.intent,
     extracted_params |-> final_state.extracted_params,
     api_results |-> final_state.api_results,
     context |-> context,
     timestamp |-> Now]

\* An except clause of query() that leaves the error field out.
ApologyWithoutError(user_query, error) ==
    [query |-> user_query,
     answer |-> <<"I apologize, but I encountered an error: ">> \o error,
     timestamp |-> Now]

\* The dict query() returns from its except clause.
Apology(user_query, error) ==
    [query |-> user_query,
     answer |-> <<"I apologize, but I encountered an error: ">> \o error,
     error |-> error,
     timestamp |-> Now]

\* A call_api whose last branch is an else: every intent that is neither
\* bus_arrival nor bus_stop_search fetches the traffic data.
FirstCallElseTraffic(intent, params) ==
    IF intent \in {<<"bus_arrival">>, <<"bus_stop_search">>}
    THEN [do |-> "return"]
    ELSE [do |-> "get_traffic_info"]

\* A call_api that tests the location name before the stop code: a query
\* that names both goes through the stop search.
FirstCallLocationFirst(intent, params) ==
    IF intent = <<"bus_arrival">> THEN
        IF params.t # "dict" THEN [do |-> "raise", error |-> <<"AttributeError">>]
        ELSE IF Truthy(Get(params.d, "location_name", Null))
        THEN [do |-> "search_bus_stops", query |-> params.d["location_name"]]
        ELSE IF Truthy(Get(params.d, "bus_stop_code", Null))
        THEN [do |-> "get_bus_arrival_info",
              bus_stop_code |-> params.d["bus_stop_code"],
              service_no |-> Get(params.d, "service_no", Null)]
        ELSE [do |-> "return"]
    ELSE IF intent = <<"bus_stop_search">> THEN
        IF params.t # "dict" THEN [do |-> "raise", error |-> <<"AttributeError">>]
        ELSE LET location == Or(Get(params.d, "location_name", Null),
                                Get(params.d, "road_name", Str(<<>>)))
             IN  IF Truthy(location)
                 THEN [do |-> "search_bus_stops", query |-> location]
                 ELSE [do |-> "return"]
    ELSE IF intent = <<"traffic_info">> THEN [do |-> "get_traffic_info"]
    ELSE [do |-> "return"]

\* A call_api that fetches the traffic data only when parameters were
\* extracted.
FirstCallTrafficNeedsParams(intent, params) ==
    IF intent = <<"bus_arrival">> THEN
        IF params.t # "dict" THEN [do |-> "raise", error |-> <<"AttributeError">>]
        ELSE LET bus_stop_code == Get(params.d, "bus_stop_code", Null)
                 service_no == Get(params.d, "service_no", Null)
             IN  IF Truthy(bus_stop_code)
                 THEN [do |-> "get_bus_arrival_info",
                       bus_stop_code |-> bus_stop_code, service_no |-> service_no]
                 ELSE IF Truthy(Get(params.d, "location_name", Null))
                 THEN [do |-> "search_bus_stops", query |-> params.d["location_name"]]
                 ELSE [do |-> "return"]
    ELSE IF intent = <<"bus_stop_search">> THEN
        IF params.t # "dict" THEN [do |-> "raise", error |-> <<"AttributeError">>]
        ELSE LET location == Or(Get(params.d, "location_name", Null),
                                Get(params.d, "road_name", Str(<<>>)))
             IN  IF Truthy(location)
                 THEN [do |-> "search_bus_stops", query |-> location]
                 ELSE [do |-> "return"]
    ELSE IF intent = <<"traffic_info">> /\ Truthy(params)
    THEN [do |-> "get_traffic_info"]
    ELSE [do |-> "return"]

\* A call_api whose stop search prefers the road name to the location name.
FirstCallPrefersRoadName(intent, params) ==
    IF intent = <<"bus_arrival">> THEN
        IF params.t # "dict" THEN [do |-> "raise", error |-> <<"AttributeError">>]
        ELSE LET bus_stop_code == Get(params.d, "bus_stop_code", Null)
                 service_no == Get(params.d, "service_no", Null)
             IN  IF Truthy(bus_stop_code)
                 THEN [do |-> "get_bus_arrival_info",
                       bus_stop_code |-> bus_stop_code, service_no |-> service_no]
                 ELSE IF Truthy(Get(params.d, "location_name", Null))
                 THEN [do |-> "search_bus_stops", query |-> params.d["location_name"]]
                 ELSE [do |-> "return"]
    ELSE IF intent = <<"bus_stop_search">> THEN
        IF params.t # "dict" THEN [do |-> "raise", error |-> <<"AttributeError">>]
        ELSE LET location == Or(Get(params.d, "road_name", Null),
                                Get(params.d, "location_name", Str(<<>>)))
             IN  IF Truthy(location)
                 THEN [do |-> "search_bus_stops", query |-> location]
                 ELSE [do |-> "return"]
    ELSE IF intent = <<"traffic_info">> THEN [do |-> "get_traffic_info"]
    ELSE [do |-> "return"]

\* What call_api does up to its first await, from the intent and the
\* extracted parameters: the facade operation it awaits, or its return with
\* nothing fetched, or the exception its try block raises before any call
\* (params.get on a value that is no dict).
FirstCall(intent, params) ==
    IF intent = <<"bus_arrival">> THEN
        IF params.t # "dict" THEN [do |-> "raise", error |-> <<"AttributeError">>]
        ELSE LET bus_stop_code == Get(params.d, "bus_stop_code", Null)
                 service_no == Get(params.d, "service_no", Null)
             IN  IF Truthy(bus_stop_code)
                 THEN [do |-> "get_bus_arrival_info",
                       bus_stop_code |-> bus_stop_code, service_no |-> service_no]
                 ELSE IF Truthy(Get(params.d, "location_name", Null))
                 THEN [do |-> "search_bus_stops", query |-> params.d["location_name"]]
                 ELSE [do |-> "return"]
    ELSE IF intent = <<"bus_stop_search">> THEN
        IF params.t # "dict" THEN [do |-> "raise", error |-> <<"AttributeError">>]
        ELSE LET location == Or(Get(params.d, "location_name", Null),
                                Get(params.d, "road_name", Str(<<>>)))
             IN  IF Truthy(location)
                 THEN [do |-> "search_bus_stops", query |-> location]
                 ELSE [do |-> "return"]
    ELSE IF intent = <<"traffic_info">> THEN [do |-> "get_traffic_info"]
    ELSE [do |-> "return"]

\* A call_api that fetches the arrivals of the last stop of the search result
\* instead of the first.
AfterSearchLastStop(intent, params, search_result) ==
    IF /\ intent = <<"bus_arrival">>
       /\ Get(search_result, "success", FALSE)
       /\ Get(search_result, "data", <<>>) # <<>>
    THEN LET last_stop == search_result.data[Len(search_result.data)]
         IN  [do |-> "get_bus_arrival_info",
              bus_stop_code |-> IF "BusStopCode" \in DOMAIN last_stop
                                THEN [t |-> "code", n |-> last_stop.BusStopCode]
                                ELSE Null,
              service_no |-> Get(params.d, "service_no", Null)]
    ELSE [do |-> "return"]

\* A call_api that fetches arrivals after every stop search, with no stop
\* code when the search found none.
AfterSearchAlwaysFetches(intent, params, search_result) ==
    IF intent = <<"bus_arrival">>
    THEN [do |-> "get_bus_arrival_info",
          bus_stop_code |->
              IF Get(search_result, "data", <<>>) # <<>>
              THEN [t |-> "code", n |-> search_result.data[1].BusStopCode]
              ELSE Null,
          service_no |-> Get(params.d, "service_no", Null)]
    ELSE [do |-> "return"]

\* What call_api does after search_bus_stops returned search_result: for
\* bus_arrival with a successful, non-empty search, the arrivals call for the
\* first stop; otherwise it returns.
AfterSearch(intent, params, search_result) ==
    IF /\ intent = <<"bus_arrival">>
       /\ Get(search_result, "success", FALSE)
       /\ Get(search_result, "data", <<>>) # <<>>
    THEN LET first_stop == search_result.data[1]
         IN  [do |-> "get_bus_arrival_info",
              bus_stop_code |-> IF "BusStopCode" \in DOMAIN first_stop
                                THEN [t |-> "code", n |-> first_stop.BusStopCode]
                                ELSE Null,
              service_no |-> Get(params.d, "service_no", Null)]
    ELSE [do |-> "return"]

(***************************************************************************)
(* State                                                                   *)
(***************************************************************************)

VARIABLES
    pc,             \* where the query() coroutine stands: the call it awaits
    state,          \* the AgentState of the workflow
    context,        \* the context argument of query()
    response,       \* what query() returned, once pc = "returned"
    api_results,    \* call_api: its local dict
    incidents,      \* call_api: the result of get_traffic_info
    search_query,   \* search_bus_stop: its query argument
    all_stops,      \* search_bus_stop: the stops accumulated so far
    skip,           \* search_bus_stop: the offset of the next page
    found,          \* what search_bus_stop came to, once pc = "search_bus_stops"
    catalog,        \* the server: the stop catalog it holds
    stages,         \* history: the nodes the workflow has run, in order
    calls,          \* history: the facade operations call_api has awaited
    fetches,        \* history: the get_bus_stops calls of the running search
    envelopes,      \* history: what each facade operation came to
    replies,        \* history: what each llm.ainvoke came to
    escaped,        \* history: the exceptions that reached query()'s except
    other           \* a second query() coroutine, suspended: all of the above

\* What belongs to the running query() coroutine.
query_vars ==
    <<pc, state, context, response, api_results, incidents, search_query,
      all_stops, skip, found, catalog, stages, calls, fetches, envelopes,
      replies, escaped>>

vars == <<query_vars, other>>

\* The locals of search_bus_stop, and the server's catalog.
search_vars == <<search_query, all_stops, skip, found, catalog, fetches>>

\* No query() call has been made.
NoState == [messages |-> <<>>, query |-> <<>>, intent |-> <<>>,
            extracted_params |-> Dict(EmptyDict), api_results |-> EmptyDict,
            final_answer |-> <<>>, context |-> Dict(EmptyDict), iteration |-> 0]

\* A query() coroutine before its call: no state, nothing awaited.
Idle ==
    [pc |-> "idle", state |-> NoState, context |-> Null, response |-> EmptyDict,
     api_results |-> EmptyDict, incidents |-> EmptyDict, search_query |-> Null,
     all_stops |-> <<>>, skip |-> 0, found |-> Return(<<>>), catalog |-> "none",
     stages |-> <<>>, calls |-> <<>>, fetches |-> <<>>, envelopes |-> <<>>,
     replies |-> <<>>, escaped |-> <<>>]

\* The running query() coroutine: its position, its state and its locals.
Running ==
    [pc |-> pc, state |-> state, context |-> context, response |-> response,
     api_results |-> api_results, incidents |-> incidents,
     search_query |-> search_query, all_stops |-> all_stops, skip |-> skip,
     found |-> found, catalog |-> catalog, stages |-> stages, calls |-> calls,
     fetches |-> fetches, envelopes |-> envelopes, replies |-> replies,
     escaped |-> escaped]

Init ==
    /\ pc = "idle"
    /\ state = NoState
    /\ context = Null
    /\ response = EmptyDict
    /\ api_results = EmptyDict
    /\ incidents = EmptyDict
    /\ search_query = Null
    /\ all_stops = <<>>
    /\ skip = 0
    /\ found = Return(<<>>)
    /\ catalog = "none"
    /\ stages = <<>>
    /\ calls = <<>>
    /\ fetches = <<>>
    /\ envelopes = <<>>
    /\ replies = <<>>
    /\ escaped = <<>>
    /\ other = Idle

(***************************************************************************)
(* TransportAgent.query and the workflow it runs                           *)
(***************************************************************************)

\* query() is called: it builds initial_state and the workflow enters its
\* entry point, where it awaits the classification call.
Query ==
    /\ pc = "idle"
    /\ \E user_query \in Queries, ctx \in Contexts :
          /\ state' = InitialState(user_query, ctx)
          /\ context' = ctx
    /\ pc' = EntryPoint
    /\ UNCHANGED <<other, response, api_results, incidents, search_vars, stages, calls,
                   envelopes, replies, escaped>>

\* An exception leaves the workflow inside `node`: the except clause of
\* query() returns the apology.
Except(node, error) ==
    /\ pc' = "returned"
    /\ response' = Apology(state.query, error)
    /\ stages' = Append(stages, node)
    /\ escaped' = Append(escaped, error)
    /\ UNCHANGED state

\* A node returned `update`: the graph folds it into the state and follows
\* the node's edge; at END query() returns its response.
Finish(node, update) ==
    /\ state' = Reduce(state, update)
    /\ stages' = Append(stages, node)
    /\ escaped' = escaped
    /\ IF Edge(node) = "END"
       THEN /\ pc' = "returned"
            /\ response' = Response(state.query, context, state')
       ELSE /\ pc' = Edge(node)
            /\ response' = response

\* The understand_intent node: one model call.
UnderstandIntent ==
    /\ pc = "understand_intent"
    /\ \E llm \in Completions(IntentReplies) :
          /\ replies' = Append(replies, llm)
          /\ IF llm.raised THEN Except("understand_intent", llm.error)
             ELSE Finish("understand_intent", understand_intent(state, llm.value))
    /\ UNCHANGED <<other, context, api_results, incidents, search_vars, calls, envelopes>>

\* The extract_parameters node: one model call.
ExtractParameters ==
    /\ pc = "extract_parameters"
    /\ \E llm \in Completions(ExtractionReplies) :
          /\ replies' = Append(replies, llm)
          /\ IF llm.raised THEN Except("extract_parameters", llm.error)
             ELSE Finish("extract_parameters", extract_parameters(state, llm.value))
    /\ UNCHANGED <<other, context, api_results, incidents, search_vars, calls, envelopes>>

\* The generate_response node: one model call.
GenerateResponse ==
    /\ pc = "generate_response"
    /\ \E llm \in Completions(AnswerReplies) :
          /\ replies' = Append(replies, llm)
          /\ IF llm.raised THEN Except("generate_response", llm.error)
             ELSE Finish("generate_response", generate_response(state, llm.value))
    /\ UNCHANGED <<other, context, api_results, incidents, search_vars, calls, envelopes>>

(***************************************************************************)
(* TransportAgent.call_api                                                 *)
(***************************************************************************)

\* call_api goes on after its local dict became `results` and `next` tells
\* what it does now: await a facade operation, or return (also from its
\* except clause, with the "error" entry).
Continue(results, next) ==
    IF next.do = "return" THEN
        /\ Finish("call_api", call_api(state, results))
        /\ api_results' = results
        /\ calls' = calls
        /\ UNCHANGED <<search_query, all_stops, skip, catalog, fetches>>
    ELSE IF next.do = "raise" THEN
        /\ Finish("call_api", call_api(state, Put(results, "error", next.error)))
        /\ api_results' = Put(results, "error", next.error)
        /\ calls' = calls
        /\ UNCHANGED <<search_query, all_stops, skip, catalog, fetches>>
    ELSE
        /\ api_results' = results
        /\ calls' = Append(calls, next)
        /\ UNCHANGED <<state, response, stages, escaped>>
        /\ IF next.do = "search_bus_stops"
           THEN /\ pc' = "get_bus_stops"
                /\ search_query' = next.query
                /\ all_stops' = <<>>
                /\ skip' = 0
                /\ fetches' = <<>>
                /\ catalog' \in Catalogs
           ELSE /\ pc' = next.do
                /\ UNCHANGED <<search_query, all_stops, skip, catalog, fetches>>

\* The facade operation `op`, whose repository call came to `awaited`, came
\* to `outcome`: call_api goes on with its local dict as `results` and with
\* `next`, or ends in its except clause.
Returned(op, awaited, outcome, results, next) ==
    /\ envelopes' = Append(envelopes, [op |-> op, awaited |-> awaited,
                                       outcome |-> outcome])
    /\ IF outcome.raised
       THEN Continue(api_results, [do |-> "raise", error |-> outcome.error])
       ELSE Continue(results, next)

\* A call_api with a result cache keyed by the query text: when another
\* query with the same text has been dispatched, its results are reused and
\* nothing is fetched.
CallApiCached ==
    /\ pc = "call_api"
    /\ IF other.state.query = state.query /\ Len(other.stages) >= 3
       THEN Continue(other.state.api_results, [do |-> "return"])
       ELSE Continue(EmptyDict, FirstCall(state.intent, state.extracted_params))
    /\ UNCHANGED <<other, context, incidents, found, envelopes, replies>>

\* A call_api whose results dict is an attribute shared by the coroutines
\* instead of a local: it starts from what the other query left in it.
CallApiSharedResults ==
    /\ pc = "call_api"
    /\ Continue(other.api_results,
                FirstCall(state.intent, state.extracted_params))
    /\ UNCHANGED <<other, context, incidents, found, envelopes, replies>>

\* The call_api node starts: it runs to its first await, or to its return.
CallApi ==
    /\ pc = "call_api"
    /\ Continue(EmptyDict, FirstCall(state.intent, state.extracted_params))
    /\ UNCHANGED <<other, context, incidents, found, envelopes, replies>>


\* A call_api that starts a new dict for the arrivals instead of adding to
\* the one it holds.
GetBusArrivalFreshResults ==
    /\ pc = "get_bus_arrival_info"
    /\ \E http \in BusArrivalResponses :
          LET awaited == MakeRequest(http)
              outcome == get_bus_arrival_info(awaited)
          IN  Returned("get_bus_arrival_info", awaited, outcome,
                       Put(EmptyDict, "bus_arrival", outcome.value),
                       [do |-> "return"])
    /\ UNCHANGED <<other, context, incidents, found, replies>>

\* get_bus_arrival_info returns to call_api.
GetBusArrival ==
    /\ pc = "get_bus_arrival_info"
    /\ \E http \in BusArrivalResponses :
          LET awaited == MakeRequest(http)
              outcome == get_bus_arrival_info(awaited)
          IN  Returned("get_bus_arrival_info", awaited, outcome,
                       Put(api_results, "bus_arrival", outcome.value),
                       [do |-> "return"])
    /\ UNCHANGED <<other, context, incidents, found, replies>>


\* A call_api that gives up on the traffic when the incidents could not be
\* had: it stores the failure envelope and returns without asking for the
\* speed bands.
GetTrafficIncidentsStopsOnFailure ==
    /\ pc = "get_traffic_info"
    /\ \E http \in TrafficIncidentsResponses :
          LET awaited == MakeRequest(http)
              outcome == get_traffic_info(awaited)
          IN  /\ IF outcome.value.success
                 THEN Returned("get_traffic_info", awaited, outcome, api_results,
                               [do |-> "get_traffic_speed_info"])
                 ELSE Returned("get_traffic_info", awaited, outcome,
                               Put(api_results, "traffic_incidents", outcome.value),
                               [do |-> "return"])
              /\ incidents' = IF outcome.raised THEN incidents ELSE outcome.value
    /\ UNCHANGED <<other, context, found, replies>>

\* get_traffic_info returns to call_api, which awaits get_traffic_speed_info.
GetTrafficIncidents ==
    /\ pc = "get_traffic_info"
    /\ \E http \in TrafficIncidentsResponses :
          LET awaited == MakeRequest(http)
              outcome == get_traffic_info(awaited)
          IN  /\ Returned("get_traffic_info", awaited, outcome, api_results,
                          [do |-> "get_traffic_speed_info"])
              /\ incidents' = IF outcome.raised THEN incidents ELSE outcome.value
    /\ UNCHANGED <<other, context, found, replies>>

\* get_traffic_speed_info returns to call_api, which stores both results.
GetTrafficSpeedBands ==
    /\ pc = "get_traffic_speed_info"
    /\ \E http \in TrafficSpeedBandsResponses :
          LET awaited == MakeRequest(http)
              outcome == get_traffic_speed_info(awaited)
          IN  Returned("get_traffic_speed_info", awaited, outcome,
                       Put(Put(api_results, "traffic_incidents", incidents),
                           "traffic_speed", outcome.value),
                       [do |-> "return"])
    /\ UNCHANGED <<other, context, incidents, found, replies>>

(***************************************************************************)
(* LTARepository.search_bus_stop, awaited by search_bus_stops              *)
(***************************************************************************)

\* get_bus_stops(skip) returns to the loop of search_bus_stop, or raises
\* into its except clause.  When the loop breaks the filter runs and
\* search_bus_stop returns.
GetBusStops ==
    /\ pc = "get_bus_stops"
    /\ \E http \in BusStopsResponses(catalog, skip) :
          LET result == MakeRequest(http)
              stops == Get(result.value, "value", <<>>)
              turn == LoopTurn(stops, all_stops, skip)
          IN  IF result.raised THEN
                  /\ fetches' = Append(fetches, [skip |-> skip, raised |-> TRUE,
                                                 stops |-> 0])
                  /\ found' = SearchExcept(all_stops, search_query, result.error)
                  /\ pc' = "search_bus_stops"
                  /\ UNCHANGED <<all_stops, skip>>
              ELSE
                  /\ fetches' = Append(fetches, [skip |-> skip, raised |-> FALSE,
                                                 stops |-> Len(stops)])
                  /\ all_stops' = turn.all_stops
                  /\ skip' = turn.skip
                  /\ IF turn.break
                     THEN /\ found' = SearchFilter(turn.all_stops, search_query)
                          /\ pc' = "search_bus_stops"
                     ELSE /\ found' = found
                          /\ pc' = pc
    /\ UNCHANGED <<other, state, context, response, api_results, incidents,
                   search_query, catalog, stages, calls, envelopes, replies,
                   escaped>>

\* search_bus_stop returned to search_bus_stops, which returns its envelope
\* to call_api.
SearchReturn ==
    /\ pc = "search_bus_stops"
    /\ LET outcome == search_bus_stops(found)
       IN  Returned("search_bus_stops", found, outcome,
                    Put(api_results, "bus_stop_search", outcome.value),
                    AfterSearch(state.intent, state.extracted_params,
                                outcome.value))
    /\ UNCHANGED <<other, context, incidents, found, replies>>

(***************************************************************************)
(* Specification                                                           *)
(***************************************************************************)

Next ==
    \/ Query
    \/ UnderstandIntent
    \/ ExtractParameters
    \/ CallApi
    \/ GetBusStops
    \/ SearchReturn
    \/ GetBusArrival
    \/ GetTrafficIncidents
    \/ GetTrafficSpeedBands
    \/ GenerateResponse

Spec == Init /\ [][Next]_vars

\* The event loop resumes a coroutine whose awaited call has returned or
\* raised, and every call of the model and of the transit server does one or
\* the other: a query that can take a step takes one.
FairSpec == Spec /\ WF_vars(Next)

(***************************************************************************)
(* Two queries on one event loop                                           *)
(***************************************************************************)

\* Each request gets its own TransportAgent (get_agent), and query() keeps
\* everything in its arguments, in the workflow state and in locals: the
\* coroutines of two requests hold nothing in common.  The event loop runs
\* one of them at a time and may change over at every await.

\* The running coroutine is suspended at its await and the other one runs,
\* from where it stood (or from its call, when it has not started).
Switch ==
    /\ pc # "idle"
    /\ other' = Running
    /\ pc' = other.pc
    /\ state' = other.state
    /\ context' = other.context
    /\ response' = other.response
    /\ api_results' = other.api_results
    /\ incidents' = other.incidents
    /\ search_query' = other.search_query
    /\ all_stops' = other.all_stops
    /\ skip' = other.skip
    /\ found' = other.found
    /\ catalog' = other.catalog
    /\ stages' = other.stages
    /\ calls' = other.calls
    /\ fetches' = other.fetches
    /\ envelopes' = other.envelopes
    /\ replies' = other.replies
    /\ escaped' = other.escaped

\* The replies the two queries draw from: fewer than a query alone, to keep
\* the pairs of coroutine states countable.
PairIntentReplies == {<<"bus_arrival">>, <<"bus_stop_search">>, <<"traffic_info">>}

PairExtractionReplies ==
    {[parses |-> FALSE],
     [parses |-> TRUE, value |-> Null],
     [parses |-> TRUE, value |-> Dict([bus_stop_code |-> Str(<<"83139">>)])],
     [parses |-> TRUE,
      value |-> Dict([bus_stop_code |-> Null, location_name |-> Str(<<"O", "R">>)])]}

PairAnswerReplies == {<<"\n", "Bus 190 arrives in 3 minutes.", " ">>}

\* The running query has drawn its inputs from the sets for two queries: no
\* context, the sparse catalog in pages shorter than a full one.
InPair ==
    /\ context = Null
    /\ catalog # "dense"
    /\ \A i \in 1..Len(fetches) : fetches[i].stops < batch_size
    /\ \A i \in 1..Len(replies) :
          \/ replies[i].raised
          \/ /\ i = 1 => replies[i].value.content \in PairIntentReplies
             /\ i = 2 => replies[i].value.content \in PairExtractionReplies
             /\ i = 3 => replies[i].value.content \in PairAnswerReplies

\* A step of the running query, or a change over to the other one.
PairNext ==
    \/ Query /\ InPair'
    \/ UnderstandIntent /\ InPair'
    \/ ExtractParameters /\ InPair'
    \/ CallApi /\ InPair'
    \/ GetBusStops /\ InPair'
    \/ SearchReturn /\ InPair'
    \/ GetBusArrival /\ InPair'
    \/ GetTrafficIncidents /\ InPair'
    \/ GetTrafficSpeedBands /\ InPair'
    \/ GenerateResponse /\ InPair'
    \/ Switch

PairSpec == Init /\ [][PairNext]_vars

(***************************************************************************)
(* Properties                                                              *)
(***************************************************************************)

\* The four stages, in the order of the workflow's edges.
Pipeline ==
    <<"understand_intent", "extract_parameters", "call_api", "generate_response">>

\* The nodes that await the language model.
ModelNodes == {"understand_intent", "extract_parameters", "generate_response"}

\* query() has returned the response built after the workflow.
ReturnedNormally == pc = "returned" /\ escaped = <<>>

\* Some facade operation of this run came to a failure envelope.
SomeFetchFailed ==
    \E i \in 1..Len(envelopes) :
        /\ ~envelopes[i].outcome.raised
        /\ ~envelopes[i].outcome.value.success

\* C1: the stages a query has passed through are always an initial part of
\* the four stages in order, each at most once; a query that returned has
\* passed through all four, whatever the intent, the parameters and the
\* transit outcomes were, unless a language-model call raised in the stage
\* it had reached (the abort of the outer except clause), and the dispatch
\* stage is never the one that ends a run.
C1_StrictlyLinear ==
    /\ Len(stages) <= Len(Pipeline)
    /\ stages = SubSeq(Pipeline, 1, Len(stages))
    /\ pc = "returned" =>
          \/ stages = Pipeline /\ escaped = <<>>
          \/ /\ Len(escaped) = 1
             /\ stages[Len(stages)] \in ModelNodes
             /\ replies[Len(replies)].raised
             /\ Len(replies) = Cardinality({i \in 1..Len(stages) :
                                              stages[i] \in ModelNodes})
    /\ pc \in {"get_bus_arrival_info", "get_bus_stops", "search_bus_stops",
               "get_traffic_info", "get_traffic_speed_info"} =>
          stages = SubSeq(Pipeline, 1, 2)
    /\ pc \in {"understand_intent", "extract_parameters", "call_api",
               "generate_response"} =>
          \E n \in 1..Len(Pipeline) : Pipeline[n] = pc /\ Len(stages) = n - 1

\* C1, its case: a query went through the four stages although a transit
\* fetch failed on the way.
C1_Witness ==
    /\ ReturnedNormally
    /\ stages = Pipeline
    /\ SomeFetchFailed

\* An envelope: success with data and no error, or failure with an error and
\* no data.
IsEnvelope(e) ==
    /\ "success" \in DOMAIN e
    /\ e.success \in BOOLEAN
    /\ e.success => "data" \in DOMAIN e /\ "error" \notin DOMAIN e
    /\ ~e.success => "error" \in DOMAIN e /\ "data" \notin DOMAIN e

\* C2: every facade operation that call_api awaited returned (it did not
\* raise), whatever its repository call came to, and what it returned is an
\* envelope: the success envelope with the repository's result as data when
\* the repository call returned, the failure envelope with the exception's
\* text as error when it raised.
C2_FacadeNeverRaises ==
    \A i \in 1..Len(envelopes) :
        /\ envelopes[i].op \in {"get_bus_arrival_info", "search_bus_stops",
                                "get_traffic_info", "get_traffic_speed_info"}
        /\ ~envelopes[i].outcome.raised
        /\ IsEnvelope(envelopes[i].outcome.value)
        /\ envelopes[i].outcome.value.success = ~envelopes[i].awaited.raised
        /\ IF envelopes[i].awaited.raised
           THEN envelopes[i].outcome.value.error = envelopes[i].awaited.error
           ELSE envelopes[i].outcome.value.data = envelopes[i].awaited.value

\* C2, its case: the traffic-incidents fetch failed and the speed-bands fetch
\* succeeded, and both came back as envelopes.
C2_Witness ==
    /\ Len(envelopes) = 2
    /\ envelopes[1].op = "get_traffic_info"
    /\ ~envelopes[1].outcome.raised
    /\ ~envelopes[1].outcome.value.success
    /\ envelopes[2].op = "get_traffic_speed_info"
    /\ ~envelopes[2].outcome.raised
    /\ envelopes[2].outcome.value.success

\* C3: once an exception has escaped the workflow, query() has returned (it
\* raised nothing) and its response is the apology: the answer is the
\* apology sentence followed by the error text, and the error field holds
\* that text.
C3_ApologyOnEscape ==
    escaped # <<>> =>
        /\ pc = "returned"
        /\ DOMAIN response = {"query", "answer", "error", "timestamp"}
        /\ response.query = state.query
        /\ response.error = escaped[1]
        /\ response.answer =
              <<"I apologize, but I encountered an error: ">> \o escaped[1]
        /\ replies[Len(replies)] = Raise(escaped[1])

\* C3, its case: the model call of the synthesis stage raised.
C3_Witness ==
    /\ escaped # <<>>
    /\ stages = Pipeline
    /\ "error" \in DOMAIN response

\* Stage 1 has classified the query, and the intent is none of the six.
UnknownIntent ==
    /\ stages # <<>>
    /\ ~replies[1].raised
    /\ state.intent \notin Intents

\* C4 as stated, read in its favour (only for runs in which no model call
\* raised): a query classified outside the six intents returns with no call
\* dispatched, all four stages passed and a non-empty answer.
C4_Original ==
    (ReturnedNormally /\ UnknownIntent) =>
        /\ calls = <<>>
        /\ stages = Pipeline
        /\ response.answer # <<>>

\* C4, amended: for a query classified outside the six intents the dispatch
\* stage awaits no facade operation and no stop search and leaves the results
\* empty; unless a model call raises the query passes through synthesis, and
\* its answer is empty exactly when the synthesis reply holds nothing but
\* whitespace.
C4_UnknownIntentNoDispatch ==
    UnknownIntent =>
        /\ calls = <<>>
        /\ envelopes = <<>>
        /\ fetches = <<>>
        /\ pc \in {"extract_parameters", "call_api", "generate_response",
                   "returned"}
        /\ ReturnedNormally =>
              /\ stages = Pipeline
              /\ response.api_results = EmptyDict
              /\ response.answer # <<>> <=>
                    \E i \in 1..Len(replies[3].value.content) :
                        replies[3].value.content[i] \notin Whitespace

\* C4, its case: an unrecognized intent went through synthesis and got an
\* answer.
C4_Witness ==
    /\ ReturnedNormally
    /\ UnknownIntent
    /\ "call_api" \in {stages[i] : i \in 1..Len(stages)}
    /\ response.answer # <<>>

\* C5 as stated: after stage 1, and in the response, the intent is one of the
\* six, and "general" when the normalised label is none of them.
C5_Original ==
    (stages # <<>> /\ ~replies[1].raised) =>
        /\ state.intent \in Intents
        /\ Lower(Strip(replies[1].value.content)) \notin Intents =>
              state.intent = <<"general">>
        /\ ReturnedNormally => response.intent \in Intents

\* s is t without the whitespace at its two ends.
IsStripped(s, t) ==
    /\ s # <<>> => s[1] \notin Whitespace /\ s[Len(s)] \notin Whitespace
    /\ \E i \in 0..Len(t) :
          /\ i + Len(s) <= Len(t)
          /\ \A j \in 1..Len(t) :
                IF j > i /\ j <= i + Len(s) THEN t[j] = s[j - i]
                ELSE t[j] \in Whitespace

\* C5, amended: after stage 1, and in the response, the intent is the
\* model's label trimmed and lower-cased, whether or not that is one of the
\* six; an unrecognized label is kept, not replaced by "general".
C5_IntentIsNormalisedLabel ==
    (stages # <<>> /\ ~replies[1].raised) =>
        /\ IsStripped(state.intent,
                      [i \in 1..Len(replies[1].value.content) |->
                          LowerChar(replies[1].value.content[i])])
        /\ ReturnedNormally => response.intent = state.intent

\* C5, its case: a label in mixed case and padded with whitespace ended as
\* the intent bus_arrival in the response.
C5_Witness ==
    /\ ReturnedNormally
    /\ replies[1].value.content = <<" ", "Bus_Arrival", "\n">>
    /\ response.intent = <<"bus_arrival">>

\* No get_bus_stops call of the search has raised.
NoFetchRaised == \A i \in 1..Len(fetches) : ~fetches[i].raised

\* The sizes of the pages the search has fetched, in order.
PageSizes == [i \in 1..Len(fetches) |-> fetches[i].stops]

\* The number of stops in the first n pages fetched.
RECURSIVE Fetched(_)
Fetched(n) == IF n = 0 THEN 0 ELSE fetches[n].stops + Fetched(n - 1)

\* C6: the search asks for the offsets 0, 500, 1000, ... in order; every
\* fetch but the last returned at least 500 stops, and the search ends
\* exactly when a fetch returns fewer than 500 (or raises): while it still
\* loops every page was full, and once it has returned without a failure the
\* last page was short.  The stops it filters are all the stops of all the
\* pages, in catalog order; for pages of 500, 500 and 300 that is three
\* fetches and 1300 stops.
C6_Pagination ==
    pc \in {"get_bus_stops", "search_bus_stops"} =>
        /\ \A i \in 1..Len(fetches) : fetches[i].skip = 500 * (i - 1)
        /\ \A i \in 1..(Len(fetches) - 1) :
              ~fetches[i].raised /\ fetches[i].stops >= 500
        /\ pc = "get_bus_stops" =>
              /\ NoFetchRaised
              /\ skip = 500 * Len(fetches)
              /\ fetches # <<>> => fetches[Len(fetches)].stops >= 500
        /\ pc = "search_bus_stops" =>
              /\ fetches # <<>>
              /\ NoFetchRaised => fetches[Len(fetches)].stops < 500
        /\ Len(all_stops) = Fetched(Len(fetches))
        /\ all_stops = Page(catalog, 0, Len(all_stops))
        /\ (pc = "search_bus_stops" /\ Len(fetches) >= 3
              /\ SubSeq(PageSizes, 1, 3) = <<500, 500, 300>>) =>
              Len(fetches) = 3 /\ Len(all_stops) = 1300

\* C6, its case: pages of 500, 500 and 300 stops of a catalog in which the
\* first page alone holds more than ten matches.
C6_Witness ==
    /\ pc = "search_bus_stops"
    /\ PageSizes = <<500, 500, 300>>
    /\ catalog = "dense"
    /\ Len(all_stops) = 1300
    /\ Len(found.value) = 10

\* C7: when the first page holds no stop, the search has made that one fetch
\* and no other, has returned, and its result is the empty list.
C7_EmptyFirstPage ==
    (fetches # <<>> /\ ~fetches[1].raised /\ fetches[1].stops = 0) =>
        /\ Len(fetches) = 1
        /\ pc # "get_bus_stops"
        /\ found = Return(<<>>)

\* C7, its case: a first page of no stops, for a search text in capitals.
C7_Witness ==
    /\ pc = "search_bus_stops"
    /\ fetches = <<[skip |-> 0, raised |-> FALSE, stops |-> 0]>>
    /\ search_query = Str(<<"O", "R">>)

\* The search text occurs in `text` when letter case is ignored.
FoldedIn(q, text) ==
    \E k \in 0..(Len(text) - Len(q)) :
        \A j \in 1..Len(q) : LowerChar(text[k + j]) = LowerChar(q[j])

\* A stop qualifies for the search text q: q occurs, case ignored, in its
\* description or in its road name (a field the stop lacks is empty).
Qualifies(stop, q) ==
    \E f \in {"Description", "RoadName"} :
        FoldedIn(q, IF f \in DOMAIN stop THEN stop[f] ELSE <<>>)

\* C8: once a fetch of the search has raised, the search has returned
\* without raising and its result is the empty list, whatever the pages
\* fetched before the failure hold.
C8_FailureGivesEmpty ==
    ~NoFetchRaised =>
        /\ pc # "get_bus_stops"
        /\ ~found.raised
        /\ found.value = <<>>

\* C8, its case: the second fetch failed after a first page that holds
\* stops matching the search text.
C8_Witness ==
    /\ pc = "search_bus_stops"
    /\ Len(fetches) = 2
    /\ fetches[2].raised
    /\ Len(all_stops) = 500
    /\ Qualifies(all_stops[1], search_query.s)

\* The search of a str query has returned and no fetch failed.
SearchSucceeded ==
    pc = "search_bus_stops" /\ NoFetchRaised /\ search_query.t = "str"

\* The codes of the stops in the search result.
FoundCodes == {found.value[j].BusStopCode : j \in 1..Len(found.value)}

\* C9: every stop of the result qualifies, by its description or by its road
\* name and whatever the letter case; and a fetched stop that qualifies is
\* left out of the result only when the result is full (ten stops).
C9_QualifiesIffMatches ==
    SearchSucceeded =>
        /\ \A j \in 1..Len(found.value) :
              Qualifies(found.value[j], search_query.s)
        /\ \A i \in 1..Len(all_stops) :
              (Qualifies(all_stops[i], search_query.s)
                 /\ all_stops[i].BusStopCode \notin FoundCodes) =>
                 Len(found.value) = 10

\* C9, its case: a result that holds a stop matching only by its road name,
\* written in another letter case than the search text.
C9_Witness ==
    /\ SearchSucceeded
    /\ search_query = Str(<<"o", "r">>)
    /\ \E j \in 1..Len(found.value) :
          /\ ~FoldedIn(search_query.s, Get(found.value[j], "Description", <<>>))
          /\ "RoadName" \in DOMAIN found.value[j]
          /\ ~In(search_query.s, found.value[j].RoadName)

\* The positions of the qualifying stops among the stops fetched.
Qualifying ==
    {i \in 1..Len(all_stops) : Qualifies(all_stops[i], search_query.s)}

\* C10: the result holds min(10, k) stops, k the number of qualifying stops
\* fetched; its j-th stop is the j-th qualifying stop of the catalog.
C10_FirstTenInCatalogOrder ==
    SearchSucceeded =>
        LET qualifying == Qualifying
            k == Cardinality(qualifying)
        IN  /\ Len(found.value) <= 10
            /\ Len(found.value) = IF k < 10 THEN k ELSE 10
            /\ \A j \in 1..Len(found.value) :
                  LET c == found.value[j].BusStopCode
                  IN  /\ c \in qualifying
                      /\ found.value[j] = all_stops[c]
                      /\ Cardinality({i \in qualifying : i <= c}) = j

\* C10, its case: more than ten stops qualify and the first ten lie on two
\* pages.
C10_Witness ==
    /\ SearchSucceeded
    /\ Cardinality(Qualifying) > 10
    /\ Len(found.value) = 10
    /\ found.value[1].BusStopCode <= 500
    /\ found.value[10].BusStopCode > 500

\* Stage 2 has returned: the state holds the parameters it extracted.
Extracted == Len(stages) >= 2 /\ ~replies[2].raised

\* The dispatch stage has returned.
Dispatched == Len(stages) >= 3

\* params.get(name) on the extracted parameters: None when the name is
\* absent (and for extracted parameters that are no mapping).
Param(name) ==
    IF state.extracted_params.t = "dict"
    THEN Get(state.extracted_params.d, name, Null)
    ELSE Null

\* The operations of the facade that the envelopes so far came from, in
\* order.
Ops == [i \in 1..Len(envelopes) |-> envelopes[i].op]

\* The arrivals call for a stop code and the extracted service number.
ArrivalsCall(code) ==
    [do |-> "get_bus_arrival_info", bus_stop_code |-> code,
     service_no |-> Param("service_no")]

\* C11: for intent bus_arrival with a stop code (a value that is not empty)
\* among the extracted parameters, with or without a location name, the
\* dispatch stage awaits the arrivals operation once, with that stop code,
\* that operation makes its one fetch, and no stop search and no stop-listing
\* fetch is made, at any point of the stage and after it.
C11_StopCodeOneArrivalsFetch ==
    (Extracted /\ state.intent = <<"bus_arrival">>
       /\ Truthy(Param("bus_stop_code"))) =>
        /\ fetches = <<>>
        /\ pc \in {"call_api", "get_bus_arrival_info", "generate_response",
                   "returned"}
        /\ calls = IF pc = "call_api" THEN <<>>
                   ELSE <<ArrivalsCall(Param("bus_stop_code"))>>
        /\ Ops = IF pc \in {"call_api", "get_bus_arrival_info"} THEN <<>>
                 ELSE <<"get_bus_arrival_info">>

\* C11, its case: the parameters hold a stop code and a location name, and
\* the dispatch stage has returned after the one arrivals fetch.
C11_Witness ==
    /\ Dispatched
    /\ state.intent = <<"bus_arrival">>
    /\ Truthy(Param("bus_stop_code"))
    /\ Truthy(Param("location_name"))
    /\ Len(calls) = 1
    /\ Len(envelopes) = 1

\* The stop search for the extracted location name.
LocationSearch == [do |-> "search_bus_stops", query |-> Param("location_name")]

\* Intent bus_arrival, no stop code (absent, null or empty) and a location
\* name among the extracted parameters.
ArrivalByLocation ==
    /\ Extracted
    /\ state.intent = <<"bus_arrival">>
    /\ ~Truthy(Param("bus_stop_code"))
    /\ Truthy(Param("location_name"))

\* The first facade operation of the dispatch stage was the stop search and
\* it has returned.
SearchAnswered == envelopes # <<>> /\ envelopes[1].op = "search_bus_stops"

\* The envelope that stop search returned.
SearchEnvelope == envelopes[1].outcome.value

\* The stop search of the dispatch stage resolved to at least one stop.
Resolved == SearchAnswered /\ SearchEnvelope.success /\ SearchEnvelope.data # <<>>

\* C12: for intent bus_arrival with no stop code and a location name, the
\* dispatch stage first awaits one stop search for that name; when the search
\* resolves to at least one stop it then awaits one arrivals operation, for
\* the code of the first stop of the result, and nothing else; it hands over
\* the search envelope under "bus_stop_search" and the arrivals envelope under
\* "bus_arrival", two separate keys.
C12_ResolveThenArrivals ==
    ArrivalByLocation =>
        /\ pc = "call_api" => calls = <<>>
        /\ pc \in {"get_bus_stops", "search_bus_stops"} =>
              calls = <<LocationSearch>> /\ envelopes = <<>>
        /\ pc # "call_api" => calls[1] = LocationSearch
        /\ Resolved =>
              LET first_stop == SearchEnvelope.data[1]
                  arrivals ==
                      ArrivalsCall([t |-> "code", n |-> first_stop.BusStopCode])
              IN  /\ calls = <<LocationSearch, arrivals>>
                  /\ pc = "get_bus_arrival_info" =>
                        /\ Ops = <<"search_bus_stops">>
                        /\ api_results = [bus_stop_search |-> SearchEnvelope]
                  /\ pc # "get_bus_arrival_info" =>
                        /\ Dispatched
                        /\ Ops = <<"search_bus_stops", "get_bus_arrival_info">>
                        /\ state.api_results =
                              [bus_stop_search |-> SearchEnvelope,
                               bus_arrival |-> envelopes[2].outcome.value]

\* C12, its case: the search resolved to several stops and the arrivals of
\* the first were fetched.
C12_Witness ==
    /\ ArrivalByLocation
    /\ Dispatched
    /\ Resolved
    /\ Len(SearchEnvelope.data) > 1
    /\ Len(calls) = 2
    /\ DOMAIN state.api_results = {"bus_stop_search", "bus_arrival"}

\* The stop search of the dispatch stage yielded no stop: it found no match,
\* or a stop-listing fetch failed.
ResolutionMiss ==
    /\ SearchAnswered
    /\ ~(SearchEnvelope.success /\ Get(SearchEnvelope, "data", <<>>) # <<>>)

C14_TrafficTwoFetches ==
    (Extracted /\ state.intent = <<"traffic_info">>) =>
        /\ fetches = <<>>
        /\ pc \in {"call_api", "get_traffic_info", "get_traffic_speed_info",
                   "generate_response", "returned"}
        /\ calls = CASE pc = "call_api" -> <<>>
                     [] pc = "get_traffic_info" -> <<[do |-> "get_traffic_info"]>>
                     [] OTHER -> <<[do |-> "get_traffic_info"],
                                   [do |-> "get_traffic_speed_info"]>>
        /\ Ops = CASE pc \in {"call_api", "get_traffic_info"} -> <<>>
                   [] pc = "get_traffic_speed_info" -> <<"get_traffic_info">>
                   [] OTHER -> <<"get_traffic_info", "get_traffic_speed_info">>

\* C14, its case: the extracted parameters are the empty mapping and the
\* dispatch stage has returned after its two fetches.
C14_Witness ==
    /\ Dispatched
    /\ state.intent = <<"traffic_info">>
    /\ state.extracted_params = Dict(EmptyDict)
    /\ Len(calls) = 2
    /\ Len(envelopes) = 2

\* A call of the transit data client has failed in this dispatch stage: the
\* fetch of an arrivals or traffic operation, or a stop-listing fetch of the
\* stop search.
ClientCallFailed ==
    \/ ~NoFetchRaised
    \/ \E i \in 1..Len(envelopes) :
          envelopes[i].op # "search_bus_stops" /\ envelopes[i].awaited.raised

\* The result key under which call_api stores the envelope of an operation.
KeyOf(op) ==
    CASE op = "get_bus_arrival_info" -> "bus_arrival"
      [] op = "search_bus_stops" -> "bus_stop_search"
      [] op = "get_traffic_info" -> "traffic_incidents"
      [] op = "get_traffic_speed_info" -> "traffic_speed"

\* C15 as stated, read in its favour (an "error" key of the results mapping,
\* or of an envelope the mapping holds): after a dispatch stage in which a
\* client call failed, the results handed over hold an "error" key.
C15_Original ==
    (Dispatched /\ ClientCallFailed) =>
        \/ "error" \in DOMAIN state.api_results
        \/ \E k \in DOMAIN state.api_results :
              "error" \in DOMAIN state.api_results[k]

\* C15, amended: when a client call fails during the dispatch stage, every
\* facade operation still returns, the stage returns without raising and
\* the query goes on to synthesis; the results handed over have no "error"
\* key of their own.  A failed arrivals or traffic fetch is recorded under
\* its own result key as a failure envelope holding the error text; a failed
\* stop-listing fetch is recorded under "bus_stop_search" as a success
\* envelope with no stops.  The query returns the normal response unless the
\* model call of the synthesis stage raises.
C15_ClientFailureAbsorbed ==
    ClientCallFailed =>
        /\ \A i \in 1..Len(envelopes) : ~envelopes[i].outcome.raised
        /\ api_results = EmptyDict \/ "error" \notin DOMAIN api_results
        /\ Dispatched =>
              /\ "error" \notin DOMAIN state.api_results
              /\ DOMAIN state.api_results = {KeyOf(Ops[i]) : i \in 1..Len(Ops)}
              /\ \A i \in 1..Len(envelopes) :
                    state.api_results[KeyOf(Ops[i])] = envelopes[i].outcome.value
              /\ \A i \in 1..Len(envelopes) :
                    (Ops[i] # "search_bus_stops" /\ envelopes[i].awaited.raised) =>
                        /\ ~state.api_results[KeyOf(Ops[i])].success
                        /\ state.api_results[KeyOf(Ops[i])].error =
                              envelopes[i].awaited.error
              /\ ~NoFetchRaised =>
                    state.api_results["bus_stop_search"] =
                        [success |-> TRUE, data |-> <<>>, count |-> 0]
        /\ pc = "returned" =>
              /\ stages = Pipeline
              /\ escaped # <<>> => replies[Len(replies)].raised
              /\ escaped = <<>> =>
                    /\ "error" \notin DOMAIN response
                    /\ response.api_results = state.api_results
                    /\ response.answer = Strip(replies[3].value.content)

\* C15, its case: the arrivals fetch failed, and the query returned its
\* normal response with the failure envelope under "bus_arrival".
C15_Witness ==
    /\ ReturnedNormally
    /\ ClientCallFailed
    /\ "bus_arrival" \in DOMAIN response.api_results
    /\ ~response.api_results["bus_arrival"].success
    /\ response.api_results["bus_arrival"].error = <<"ConnectError">>

\* The keys of the response query() builds after the workflow.
NormalShape ==
    {"query", "answer", "intent", "extracted_params", "api_results", "context",
     "timestamp"}

\* The extraction call returned a reply that json.loads rejects.
Unparseable ==
    /\ Len(stages) >= 2
    /\ ~replies[2].raised
    /\ ~replies[2].value.content.parses

\* C16: when the reply of the extraction call does not parse, the extracted
\* parameters are the empty mapping and the query goes on: it is in the
\* dispatch stage (which reads the empty mapping without an error entry) or
\* past it, nothing has escaped unless the model call of the synthesis stage
\* raised, and a query that returned has passed all four stages and, unless
\* that call raised, carries the normal response with the empty mapping.
C16_UnparseableGivesEmpty ==
    Unparseable =>
        /\ state.extracted_params = Dict(EmptyDict)
        /\ pc \notin {"idle", "understand_intent", "extract_parameters"}
        /\ escaped # <<>> => Len(replies) = 3 /\ replies[3].raised
        /\ Dispatched => "error" \notin DOMAIN state.api_results
        /\ pc = "returned" => stages = Pipeline
        /\ ReturnedNormally =>
              /\ DOMAIN response = NormalShape
              /\ response.extracted_params = Dict(EmptyDict)

\* C16, its case: the extraction reply of a traffic query did not parse, the
\* two traffic fetches were dispatched and the query returned normally.
C16_Witness ==
    /\ Unparseable
    /\ ReturnedNormally
    /\ state.intent = <<"traffic_info">>
    /\ Len(calls) = 2
    /\ response.extracted_params = Dict(EmptyDict)

\* The text a bus_stop_search query is resolved with: the location name when
\* it is present and not empty, otherwise the road name.
SearchText ==
    IF Truthy(Param("location_name")) THEN Param("location_name")
    ELSE Param("road_name")

\* C17: for intent bus_stop_search, when the location name, or failing that
\* the road name, is present and not empty, the dispatch stage awaits the
\* stop search once, with that text, awaits nothing else and hands over the
\* search envelope under "bus_stop_search"; when both are absent, null or
\* empty it awaits nothing, no stop-listing fetch is made and the results it
\* hands over have no "bus_stop_search" entry.
C17_SearchTextChoice ==
    (Extracted /\ state.intent = <<"bus_stop_search">>) =>
        IF Truthy(SearchText)
        THEN /\ calls = IF pc = "call_api" THEN <<>>
                        ELSE <<[do |-> "search_bus_stops", query |-> SearchText]>>
             /\ pc \in {"get_bus_stops", "search_bus_stops"} =>
                   search_query = SearchText /\ Ops = <<>>
             /\ pc \in {"generate_response", "returned"} =>
                   /\ Ops = <<"search_bus_stops">>
                   /\ state.api_results = [bus_stop_search |-> SearchEnvelope]
        ELSE /\ calls = <<>>
             /\ envelopes = <<>>
             /\ fetches = <<>>
             /\ pc \in {"call_api", "generate_response", "returned"}
             /\ "bus_stop_search" \notin DOMAIN state.api_results

\* C17, its case: a location name and a road name were both extracted, and
\* the one stop search of the dispatch stage was made with the location name.
C17_Witness ==
    /\ Dispatched
    /\ state.intent = <<"bus_stop_search">>
    /\ Truthy(Param("location_name"))
    /\ Truthy(Param("road_name"))
    /\ Param("location_name") # Param("road_name")
    /\ Len(calls) = 1
    /\ calls[1].query = Param("location_name")

\* a is an initial part of b.
Prefix(a, b) == Len(a) <= Len(b) /\ a = SubSeq(b, 1, Len(a))

\* What the stop-listing fetches of a coroutine came to, in order.
Listing(c) ==
    [i \in 1..Len(c.fetches) |->
        [raised |-> c.fetches[i].raised, stops |-> c.fetches[i].stops]]

\* What the arrivals and traffic fetches of a coroutine came to, in order.
Fetches(c) ==
    LET e == SelectSeq(c.envelopes, LAMBDA x : x.op # "search_bus_stops")
    IN  [i \in 1..Len(e) |-> e[i].awaited]

\* Two coroutines were given the same inputs: the same query text and
\* context, the same model replies, and the same transit responses as far as
\* both have asked for them.
SameInputs(a, b) ==
    /\ a.state.query = b.state.query
    /\ a.context = b.context
    /\ a.replies = b.replies
    /\ a.catalog = b.catalog \/ "none" \in {a.catalog, b.catalog}
    /\ Prefix(Listing(a), Listing(b)) \/ Prefix(Listing(b), Listing(a))
    /\ Prefix(Fetches(a), Fetches(b)) \/ Prefix(Fetches(b), Fetches(a))

\* C18: two queries that stand at the same point and were given the same
\* query text, context, model replies and transit responses have the same
\* intent, the same extracted parameters, have dispatched the same calls in
\* the same order and hold results with the same keys.
C18_Deterministic ==
    (pc # "idle" /\ pc = other.pc /\ SameInputs(Running, other)) =>
        /\ state.intent = other.state.intent
        /\ state.extracted_params = other.state.extracted_params
        /\ calls = other.calls
        /\ Ops = [i \in 1..Len(other.envelopes) |-> other.envelopes[i].op]
        /\ DOMAIN api_results = DOMAIN other.api_results
        /\ DOMAIN state.api_results = DOMAIN other.state.api_results

\* C18, its case: two queries with the same inputs have both returned, each
\* after a stop search and an arrivals fetch.
C18_Witness ==
    /\ pc = "returned"
    /\ other.pc = "returned"
    /\ SameInputs(Running, other)
    /\ escaped = <<>>
    /\ Len(calls) = 2
    /\ Len(other.calls) = 2

\* The keys of the response query() builds in its except clause.
ApologyShape == {"query", "answer", "error", "timestamp"}

\* C19: a query that has returned carries the apology shape (an error field
\* and no intent, parameters or results) exactly when an exception escaped
\* the workflow, and otherwise the seven fields of the normal response with
\* no error field.  The only exceptions that escape are those of the model
\* calls: a failed transit call, an extraction reply that does not parse and
\* a stop search that yields nothing leave the shape normal.
C19_ShapeIffEscaped ==
    /\ pc # "returned" => escaped = <<>> /\ response = EmptyDict
    /\ escaped # <<>> <=> \E i \in 1..Len(replies) : replies[i].raised
    /\ pc = "returned" =>
          /\ DOMAIN response \in {ApologyShape, NormalShape}
          /\ DOMAIN response = ApologyShape <=> escaped # <<>>
          /\ escaped = <<>> =>
                /\ response.query = state.query
                /\ response.answer = state.final_answer
                /\ response.intent = state.intent
                /\ response.extracted_params = state.extracted_params
                /\ response.api_results = state.api_results
                /\ response.context = context
          /\ (ClientCallFailed \/ Unparseable \/ ResolutionMiss) =>
                (DOMAIN response = NormalShape <=>
                    ~replies[Len(replies)].raised)

\* C19, its case: the extraction reply did not parse and a transit fetch
\* failed, and the query returned the normal response.
C19_Witness ==
    /\ pc = "returned"
    /\ Unparseable
    /\ ClientCallFailed
    /\ DOMAIN response = NormalShape
    /\ ~response.api_results["traffic_incidents"].success

\* The results the dispatch stage of a query running alone hands over, from
\* its own intent and parameters and the envelopes its own calls came to.
AloneResults(c) ==
    LET first == FirstCall(c.state.intent, c.state.extracted_params)
        keys == {KeyOf(c.envelopes[i].op) : i \in 1..Len(c.envelopes)}
    IN  IF first.do = "raise" THEN [k \in {"error"} |-> first.error]
        ELSE [k \in keys |->
                 LET i == CHOOSE j \in 1..Len(c.envelopes) :
                              KeyOf(c.envelopes[j].op) = k
                 IN  c.envelopes[i].outcome.value]

\* A coroutine holds what a query alone would hold after the same replies
\* and responses: its intent, parameters and answer come from its own model
\* replies, its calls from its own intent, parameters and search result, its
\* envelopes answer its own calls, its results are made of its own
\* envelopes, and its response is built from its own state.
Alone(c) ==
    /\ (c.stages # <<>> /\ ~c.replies[1].raised) =>
          c.state.intent = ClassifiedIntent(c.replies[1].value.content)
    /\ (Len(c.stages) >= 2 /\ ~c.replies[2].raised) =>
          c.state.extracted_params = ExtractedParams(c.replies[2].value.content)
    /\ c.calls # <<>> =>
          c.calls[1] = FirstCall(c.state.intent, c.state.extracted_params)
    /\ (Len(c.calls) = 2 /\ c.calls[1].do = "search_bus_stops") =>
          c.calls[2] = AfterSearch(c.state.intent, c.state.extracted_params,
                                   c.envelopes[1].outcome.value)
    /\ Len(c.envelopes) <= Len(c.calls)
    /\ \A i \in 1..Len(c.envelopes) : c.envelopes[i].op = c.calls[i].do
    /\ c.pc \in {"get_bus_stops", "search_bus_stops"} =>
          c.search_query = c.calls[1].query
    /\ Len(c.stages) >= 3 =>
          /\ c.state.api_results = AloneResults(c)
          /\ Len(c.envelopes) = Len(c.calls)
          /\ c.calls = <<>> =>
                FirstCall(c.state.intent, c.state.extracted_params).do
                    \in {"return", "raise"}
    /\ (c.pc = "returned" /\ c.escaped = <<>>) =>
          /\ c.state.final_answer = Strip(c.replies[3].value.content)
          /\ c.response = Response(c.state.query, c.context, c.state)
    /\ (c.pc = "returned" /\ c.escaped # <<>>) =>
          c.response = Apology(c.state.query, c.replies[Len(c.replies)].error)

\* C20: at every point of every interleaving of two queries, each of them
\* holds what it would hold running alone with the same replies and
\* responses; and a step of one query leaves the other query's state as it
\* is: the only step that changes it is the change over, which exchanges the
\* two without altering either.
C20_Independent ==
    /\ [](Alone(Running) /\ Alone(other))
    /\ [][\/ other' = other
          \/ other' = Running /\ Running' = other]_vars

\* C20, its case: the two queries are both inside their dispatch stage, one
\* awaiting the speed bands after its incidents fetch, the other awaiting
\* arrivals after its stop search.
C20_Witness ==
    /\ pc = "get_traffic_speed_info"
    /\ Len(envelopes) = 1
    /\ other.pc = "get_bus_arrival_info"
    /\ Len(other.envelopes) = 1
    /\ other.envelopes[1].op = "search_bus_stops"

\* The search has fetched n pages and every one of them was full.
FullPages(n) ==
    /\ Len(fetches) = n
    /\ \A i \in 1..n : ~fetches[i].raised /\ fetches[i].stops >= batch_size

C21_ReturnsWhenListingEnds ==
    (pc # "idle") ~> (pc = "returned")

\* C22 as stated: after the extraction stage the extracted parameters are a
\* mapping from parameter name to value, whatever the model replied.
C22_Original ==
    Extracted => state.extracted_params.t = "dict"

\* The transcript the claim describes after the first n stages: the user's
\* message followed by the replies of the model stages among them, in order.
Transcript(n) ==
    <<HumanMessage>> \o
    (IF n >= 1 THEN <<AIMessage("understand_intent")>> ELSE <<>>) \o
    (IF n >= 2 THEN <<AIMessage("extract_parameters")>> ELSE <<>>) \o
    (IF n >= 4 THEN <<AIMessage("generate_response")>> ELSE <<>>)

\* C23 as stated: each model stage appends exactly its one reply and the
\* dispatch stage adds nothing, so after stage 1 the transcript is the user's
\* message and the classification reply, and after a complete run it is the
\* user's message followed by the three replies (length 4, nothing repeated).
C23_Original ==
    (pc # "idle" /\ escaped = <<>>) => state.messages = Transcript(Len(stages))

\* The stage that writes each field of the per-query state.
Owner ==
    [intent |-> "understand_intent",
     extracted_params |-> "extract_parameters",
     api_results |-> "call_api",
     final_answer |-> "generate_response"]

\* C24: within a run the query text and the context map never change, and a
\* step that changes the intent, the extracted parameters, the API results or
\* the final answer is the completion of the stage that owns the field: every
\* stage leaves the fields of the other stages as they were.
C24_SingleWriter ==
    [][pc # "idle" =>
          /\ state'.query = state.query
          /\ state'.context = state.context
          /\ context' = context
          /\ \A f \in DOMAIN Owner :
                state'[f] # state[f] => stages' = Append(stages, Owner[f])]_vars

\* A run in which all four stages wrote their field.
C24_Witness ==
    /\ ReturnedNormally
    /\ stages = Pipeline
    /\ \A f \in DOMAIN Owner : state[f] # InitialState(state.query, context)[f]

\* The positions of a query inside the dispatch stage: at the start of
\* call_api, or awaiting one of its operations.
InDispatch ==
    pc \in {"call_api", "get_bus_arrival_info", "get_traffic_info",
            "get_traffic_speed_info", "get_bus_stops", "search_bus_stops"}

\* C25: every step of the dispatch stage keeps each key the results mapping
\* holds, with the value it has (keys are added, never overwritten or
\* removed), and the mapping handed to the synthesis stage is the one the
\* stage has built.
C25_KeysOnlyAdded ==
    [][InDispatch =>
          /\ \A k \in DOMAIN api_results :
                k \in DOMAIN api_results' /\ api_results'[k] = api_results[k]
          /\ stages' # stages =>
                /\ stages' = Append(stages, "call_api")
                /\ state'.api_results = api_results']_vars

\* A dispatch stage that added the stop search and then the arrivals, and
\* handed both over.
C25_Witness ==
    /\ Dispatched
    /\ state.api_results = api_results
    /\ DOMAIN api_results = {"bus_stop_search", "bus_arrival"}
    /\ api_results["bus_stop_search"] = envelopes[1].outcome.value
    /\ api_results["bus_arrival"] = envelopes[2].outcome.value

\* The envelope a traffic operation makes of what its own fetch came to: the
\* failure envelope with the error's text when the fetch raised, the success
\* envelope with the fetched body otherwise.
OwnEnvelope(e, awaited) ==
    /\ e.success = ~awaited.raised
    /\ IF awaited.raised
       THEN DOMAIN e = {"success", "error"} /\ e.error = awaited.error
       ELSE DOMAIN e = {"success", "data", "timestamp"} /\ e.data = awaited.value

\* C26: for intent traffic_info the dispatch stage issues the incidents fetch
\* and then the speed-bands fetch whichever of them fails, and hands over
\* exactly the keys traffic_incidents and traffic_speed, each with the
\* envelope of its own fetch (success false for a failed fetch); there is no
\* "error" key.
C26_TrafficFetchesIsolated ==
    (Dispatched /\ state.intent = <<"traffic_info">>) =>
        /\ Ops = <<"get_traffic_info", "get_traffic_speed_info">>
        /\ DOMAIN state.api_results = {"traffic_incidents", "traffic_speed"}
        /\ OwnEnvelope(state.api_results["traffic_incidents"], envelopes[1].awaited)
        /\ OwnEnvelope(state.api_results["traffic_speed"], envelopes[2].awaited)

\* Both traffic fetches failed, each in its own way, and the query returned
\* the two failure envelopes.
C26_Witness ==
    /\ ReturnedNormally
    /\ state.intent = <<"traffic_info">>
    /\ envelopes[1].awaited.raised /\ envelopes[2].awaited.raised
    /\ envelopes[1].awaited.error # envelopes[2].awaited.error
    /\ ~response.api_results["traffic_incidents"].success
    /\ ~response.api_results["traffic_speed"].success

\* The incidents fetch failed and the speed-bands fetch succeeded.
C26_WitnessOneFailed ==
    /\ Dispatched
    /\ state.intent = <<"traffic_info">>
    /\ envelopes[1].awaited.raised /\ ~envelopes[2].awaited.raised
    /\ state.api_results["traffic_speed"].success

\* The envelope of a stop search that found no stop.
NoMatchEnvelope == [success |-> TRUE, data |-> <<>>, count |-> 0]

\* C27: whatever the stop-listing fetches came to, search_bus_stops returned
\* (it did not raise) a success envelope whose data holds at most ten records
\* and whose count is the length of the data; after a failed fetch, on
\* whichever page, the envelope is the success envelope with no record and
\* count 0, the one a search without a match returns.
C27_SearchNeverReportsFailure ==
    SearchAnswered =>
        /\ ~envelopes[1].outcome.raised
        /\ DOMAIN SearchEnvelope = {"success", "data", "count"}
        /\ SearchEnvelope.success
        /\ Len(SearchEnvelope.data) <= 10
        /\ SearchEnvelope.count = Len(SearchEnvelope.data)
        /\ ~NoFetchRaised => SearchEnvelope = NoMatchEnvelope
        /\ (NoFetchRaised /\ search_query.t = "str" /\ Qualifying = {}) =>
              SearchEnvelope = NoMatchEnvelope

\* The fetch of the second page failed after a first page that holds stops
\* matching the search text, and the facade returned the no-match envelope.
C27_Witness ==
    /\ SearchAnswered
    /\ Len(fetches) = 2
    /\ fetches[2].raised
    /\ search_query.t = "str"
    /\ Qualifying # {}
    /\ SearchEnvelope = NoMatchEnvelope

\* A search whose fetches all returned and that matched no stop.
C27_WitnessNoMatch ==
    /\ SearchAnswered
    /\ NoFetchRaised
    /\ search_query.t = "str"
    /\ all_stops # <<>>
    /\ Qualifying = {}
    /\ SearchEnvelope = NoMatchEnvelope

=============================================================================
